---- MODULE Spec2Model ----
(***************************************************************************)
(* Model of the open-fitter core: SpatialUtils (nearest-neighbour index),  *)
(* FieldGenerator (adaptive octree sampling), RBFCore (fit / predict) and  *)
(* DeformationPipeline (bake_field / apply_field).                         *)
(*                                                                         *)
(* Coordinates are integers in units of 0.005 (UnitsPerOne units = 1.0);   *)
(* distances are compared through their squares, which is exact.  All      *)
(* arrays are 2-D (N x 3) point arrays, modelled as sequences of points.   *)
(***************************************************************************)
EXTENDS Integers, Sequences, FiniteSets, TLC

VARIABLES
    \* --- FieldGenerator instance and one generate() call in progress ---
    gen_params,         \* params dict given to FieldGenerator.__init__
    spatial,            \* the SpatialUtils index: the indexed point array
    bounds_min,         \* argument of generate
    bounds_max,         \* argument of generate
    gen_pc,             \* "idle" | "running" | "done"
    gen_stack,          \* pending _process_cell calls, next call first
    generated_points,   \* self.generated_points
    gen_last,           \* the last _process_cell call and what it did
    gen_result,         \* value returned by the last finished generate
    gen_runs,           \* number of generate calls started on this instance
    \* --- one RBFCore instance ---
    control_points,     \* self.control_points (None = << >>)
    weights,            \* self.weights
    polynomial_weights, \* self.polynomial_weights
    rbf_out,            \* outcome of the last fit / predict call
    fit_ok_count,       \* fit calls that returned normally (counted to 2)
    \* --- one DeformationPipeline and its caller's arrays ---
    pipe_params,        \* self.params
    mesh_basis,         \* caller's source_verts_basis array
    mesh_deformed,      \* caller's source_verts_deformed array
    field_data,         \* the baked record held by the caller
    pipe_out,           \* outcome of the last bake_field / apply_field call
    apply_count,        \* apply_field calls made with the record (up to 2)
    \* --- one SpatialUtils instance used on its own ---
    sp_tree,            \* self.tree: the cKDTree and its data
    sp_out              \* outcome of the last SpatialUtils call

gen_vars == <<gen_params, spatial, bounds_min, bounds_max, gen_pc, gen_stack,
              generated_points, gen_last, gen_result, gen_runs>>
rbf_vars == <<control_points, weights, polynomial_weights, rbf_out,
              fit_ok_count>>
pipe_vars == <<pipe_params, mesh_basis, mesh_deformed, field_data, pipe_out,
               apply_count>>
sp_vars == <<sp_tree, sp_out>>

vars == <<gen_vars, rbf_vars, pipe_vars, sp_vars>>

(***************************************************************************)
(* Scale and bounds                                                        *)
(***************************************************************************)
\* number of model units in 1.0 of the program's coordinates
UnitsPerOne ==
    200

\* float('inf') returned by _get_adaptive_spacing
Inf ==
    1000000

\* bounding-box margins tried by the generator runs: 0..MaxMargin steps
MaxMargin ==
    3

\* one margin step (0.1, the default bbox_margin)
MarginStep ==
    20

\* generate() calls made on one FieldGenerator
MaxGenRuns ==
    2

(***************************************************************************)
(* Point arrays                                                            *)
(***************************************************************************)
Dist2(p, q) ==
    (p[1] - q[1]) * (p[1] - q[1]) + (p[2] - q[2]) * (p[2] - q[2])
        + (p[3] - q[3]) * (p[3] - q[3])

SetMin(S) ==
    CHOOSE m \in S : \A n \in S : m <= n

SetMax(S) ==
    CHOOSE m \in S : \A n \in S : m >= n

Pow2(n) ==
    2 ^ n

\* np.min(a, axis=0) / np.max(a, axis=0)
AxisMin(a) ==
    [k \in 1..3 |-> SetMin({a[i][k] : i \in 1..Len(a)})]

AxisMax(a) ==
    [k \in 1..3 |-> SetMax({a[i][k] : i \in 1..Len(a)})]

\* the 8 vertices of a cube [lo, hi]^3, in the order of tests/test_rbf.py
CubeVerts(lo, hi) ==
    << <<lo, lo, lo>>, <<hi, lo, lo>>, <<lo, hi, lo>>, <<lo, lo, hi>>,
       <<hi, hi, lo>>, <<hi, lo, hi>>, <<lo, hi, hi>>, <<hi, hi, hi>> >>

(***************************************************************************)
(* SpatialUtils                                                            *)
(***************************************************************************)
\* squared distance from p to the nearest indexed point (cKDTree.query, k=1);
\* a tree over no point answers every query with an infinite distance
NearestD2(index, p) ==
    IF index = << >> THEN Inf
    ELSE SetMin({Dist2(p, index[i]) : i \in 1..Len(index)})

\* find_nearest for one query point: squared distance and (0-based) index;
\* a miss is reported with the index n = len(data)
find_nearest(index, p) ==
    [d2  |-> NearestD2(index, p),
     idx |-> IF index = << >> THEN 0
             ELSE SetMin({i \in 1..Len(index) :
                            Dist2(p, index[i]) = NearestD2(index, p)}) - 1]

\* SpatialUtils.__init__: cKDTree(vertices) is built over any (n, 3) array,
\* n = 0 included; the constructor makes no check of its own
SpatialUtilsInit(vertices) ==
    [status |-> "ok", tree |-> [built |-> TRUE, data |-> vertices]]

\* distances <= max_distance, one entry per query point
FilterMask(index, query_points, max_distance) ==
    [i \in 1..Len(query_points) |->
        /\ index # << >>
        /\ NearestD2(index, query_points[i]) <= max_distance * max_distance]

\* query_points[mask]: the rows whose mask entry is True, in order
RECURSIVE BoolIndex(_, _)
BoolIndex(a, mask) ==
    IF a = << >> THEN << >>
    ELSE (IF Head(mask) THEN <<Head(a)>> ELSE << >>)
           \o BoolIndex(Tail(a), Tail(mask))

\* filter_points_by_distance with the comparison distances < max_distance
FilterStrict(index, query_points, max_distance) ==
    LET mask == [i \in 1..Len(query_points) |->
                    /\ index # << >>
                    /\ NearestD2(index, query_points[i])
                          < max_distance * max_distance]
    IN  [points |-> BoolIndex(query_points, mask), mask |-> mask]

filter_points_by_distance(index, query_points, max_distance) ==
    LET mask == FilterMask(index, query_points, max_distance)
    IN  [points |-> BoolIndex(query_points, mask), mask |-> mask]

(***************************************************************************)
(* FieldGenerator                                                          *)
(***************************************************************************)
\* FieldGenerator.__init__ defaults, in units of 0.005
DefaultParams ==
    [base_grid_spacing |-> 4, surface_distance |-> 20, max_distance |-> 40,
     min_distance |-> 1, density_falloff |-> 3, bbox_margin |-> 20]

\* the parameters of tests/test_field_gen.py
TestParams ==
    [base_grid_spacing |-> 20, surface_distance |-> 100, max_distance |-> 80,
     min_distance |-> 10, density_falloff |-> 2, bbox_margin |-> 20]

\* the parameters of run_example.py
ExampleParams ==
    [base_grid_spacing |-> 60, surface_distance |-> 400, max_distance |-> 500,
     min_distance |-> 10, density_falloff |-> 3, bbox_margin |-> 100]

\* 1.0 / (max_dist - min_dist) if max_dist > min_dist else 1.0, as a divisor
InvMaxMinDen(P) ==
    IF P.max_distance > P.min_distance
    THEN P.max_distance - P.min_distance
    ELSE UnitsPerOne

\* int(sqrt(normalized_dist) * density_falloff + 1) for a squared distance d2
\* with min_dist < d <= surface_dist: floor(sqrt(n) * f) is the largest k in
\* 0..f with n >= k^2 / f^2 (n is clamped to [0, 1])
SpacingLevel(d2, P) ==
    LET f   == P.density_falloff
        den == InvMaxMinDen(P)
        ks  == {k \in 0..f :
                  f * f * f * f * d2 >=
                    (f * f * P.min_distance + den * k * k)
                      * (f * f * P.min_distance + den * k * k)}
    IN  SetMax(ks) + 1

_get_adaptive_spacing(d2, P) ==
    IF d2 <= P.min_distance * P.min_distance THEN 0
    ELSE IF d2 > P.surface_distance * P.surface_distance THEN Inf
    ELSE Pow2(SpacingLevel(d2, P))

Cell(x, y, z, size, level) ==
    [x |-> x, y |-> y, z |-> z, cell_size |-> size, level |-> level]

\* the 8 offsets (dx, dy, dz) in the order of the three nested loops
Offsets ==
    << <<0, 0, 0>>, <<0, 0, 1>>, <<0, 1, 0>>, <<0, 1, 1>>,
       <<1, 0, 0>>, <<1, 0, 1>>, <<1, 1, 0>>, <<1, 1, 1>> >>

CellCorners(c, P) ==
    [i \in 1..8 |->
        <<c.x + Offsets[i][1] * c.cell_size * P.base_grid_spacing,
          c.y + Offsets[i][2] * c.cell_size * P.base_grid_spacing,
          c.z + Offsets[i][3] * c.cell_size * P.base_grid_spacing>>]

MinCornerD2(c, index, P) ==
    SetMin({NearestD2(index, CellCorners(c, P)[i]) : i \in 1..8})

CellCenter(c, P) ==
    <<c.x + (c.cell_size * P.base_grid_spacing) \div 2,
      c.y + (c.cell_size * P.base_grid_spacing) \div 2,
      c.z + (c.cell_size * P.base_grid_spacing) \div 2>>

CellChildren(c, half_size, P) ==
    [i \in 1..8 |->
        Cell(c.x + Offsets[i][1] * half_size * P.base_grid_spacing,
             c.y + Offsets[i][2] * half_size * P.base_grid_spacing,
             c.z + Offsets[i][3] * half_size * P.base_grid_spacing,
             half_size, c.level + 1)]

CellResult(what, children, emitted) ==
    [what |-> what, children |-> children, emitted |-> emitted]

\* _process_cell without the final distance check of the centre
ProcessCellNoCenterCheck(c, max_level, index, P) ==
    LET sd2  == P.surface_distance * P.surface_distance
        m    == MinCornerD2(c, index, P)
        half == c.cell_size \div 2
    IN  IF m > sd2 THEN CellResult("pruned", << >>, << >>)
        ELSE IF c.cell_size > _get_adaptive_spacing(m, P) /\ c.level < max_level
        THEN IF half > 0
             THEN CellResult("split", CellChildren(c, half, P), << >>)
             ELSE CellResult("half_zero", << >>, << >>)
        ELSE CellResult("emit", << >>, <<CellCenter(c, P)>>)

\* _process_cell that stops subdividing one level above max_level
ProcessCellEarlyStop(c, max_level, index, P) ==
    LET sd2  == P.surface_distance * P.surface_distance
        m    == MinCornerD2(c, index, P)
        half == c.cell_size \div 2
    IN  IF m > sd2 THEN CellResult("pruned", << >>, << >>)
        ELSE IF c.cell_size > _get_adaptive_spacing(m, P)
                  /\ c.level < max_level - 1
        THEN IF half > 0
             THEN CellResult("split", CellChildren(c, half, P), << >>)
             ELSE CellResult("half_zero", << >>, << >>)
        ELSE IF NearestD2(index, CellCenter(c, P)) <= sd2
             THEN CellResult("emit", << >>, <<CellCenter(c, P)>>)
             ELSE CellResult("reject", << >>, << >>)

\* one _process_cell call: what it does, the recursive calls it makes (in
\* order) and the point it appends to generated_points
ProcessCell(c, max_level, index, P) ==
    LET sd2  == P.surface_distance * P.surface_distance
        m    == MinCornerD2(c, index, P)
        half == c.cell_size \div 2
    IN  IF m > sd2 THEN CellResult("pruned", << >>, << >>)
        ELSE IF c.cell_size > _get_adaptive_spacing(m, P) /\ c.level < max_level
        THEN IF half > 0
             THEN CellResult("split", CellChildren(c, half, P), << >>)
             ELSE CellResult("half_zero", << >>, << >>)
        ELSE IF NearestD2(index, CellCenter(c, P)) <= sd2
             THEN CellResult("emit", << >>, <<CellCenter(c, P)>>)
             ELSE CellResult("reject", << >>, << >>)

\* max_level one larger than int(self.density_falloff + 1)
MaxLevelPlusOne(P) ==
    P.density_falloff + 2

MaxLevel(P) ==
    P.density_falloff + 1

\* initial_cell_size that is not the power of two 1 << max_level
InitialCellSizeLinear(P) ==
    2 * MaxLevel(P)

InitialCellSize(P) ==
    Pow2(MaxLevel(P))

\* int(ceil(dimension / base_spacing)) + 1
GridSteps(dim, P) ==
    (dim + P.base_grid_spacing - 1) \div P.base_grid_spacing + 1

\* len(range(0, steps, initial_cell_size))
RootCount(dim, P) ==
    (GridSteps(dim, P) - 1) \div InitialCellSize(P) + 1

\* root cells placed half a cell apart, so that neighbours overlap
RootCellsOverlapping(bmin, bmax, P) ==
    LET nx == RootCount(bmax[1] - bmin[1], P)
        ny == RootCount(bmax[2] - bmin[2], P)
        nz == RootCount(bmax[3] - bmin[3], P)
        w  == (InitialCellSize(P) * P.base_grid_spacing) \div 2
    IN  [i \in 1..(nx * ny * nz) |->
            Cell(bmin[1] + ((i - 1) % nx) * w,
                 bmin[2] + (((i - 1) \div nx) % ny) * w,
                 bmin[3] + ((i - 1) \div (nx * ny)) * w,
                 InitialCellSize(P), 0)]

\* the root cells in loop order: z outer, y middle, x inner
RootCells(bmin, bmax, P) ==
    LET nx == RootCount(bmax[1] - bmin[1], P)
        ny == RootCount(bmax[2] - bmin[2], P)
        nz == RootCount(bmax[3] - bmin[3], P)
        w  == InitialCellSize(P) * P.base_grid_spacing
    IN  [i \in 1..(nx * ny * nz) |->
            Cell(bmin[1] + ((i - 1) % nx) * w,
                 bmin[2] + (((i - 1) \div nx) % ny) * w,
                 bmin[3] + ((i - 1) \div (nx * ny)) * w,
                 InitialCellSize(P), 0)]

\* the centres appended by the call _process_cell(c) and by the calls below
\* it, in call order
RECURSIVE CellPoints(_, _, _)
CellPoints(c, index, P) ==
    LET r == ProcessCell(c, MaxLevel(P), index, P)
    IN  IF r.what = "split"
        THEN CellPoints(r.children[1], index, P)
               \o CellPoints(r.children[2], index, P)
               \o CellPoints(r.children[3], index, P)
               \o CellPoints(r.children[4], index, P)
               \o CellPoints(r.children[5], index, P)
               \o CellPoints(r.children[6], index, P)
               \o CellPoints(r.children[7], index, P)
               \o CellPoints(r.children[8], index, P)
        ELSE r.emitted

\* the centres appended while the loop visits root cells lo..hi
RECURSIVE RootsPoints(_, _, _, _, _)
RootsPoints(roots, lo, hi, index, P) ==
    IF lo > hi THEN << >>
    ELSE IF lo = hi THEN CellPoints(roots[lo], index, P)
    ELSE RootsPoints(roots, lo, (lo + hi) \div 2, index, P)
           \o RootsPoints(roots, (lo + hi) \div 2 + 1, hi, index, P)

\* FieldGenerator.generate as a function of its inputs
Generate(bmin, bmax, index, P) ==
    RootsPoints(RootCells(bmin, bmax, P), 1, Len(RootCells(bmin, bmax, P)),
                index, P)

(***************************************************************************)
(* FieldGenerator: one instance, generate() called on it step by step      *)
(***************************************************************************)
\* the mesh of tests/test_spatial.py: one point at the origin
OnePointMesh ==
    << <<0, 0, 0>> >>

\* the mesh of tests/test_field_gen.py
TestMesh ==
    << <<0, 0, 0>>, <<20, 0, 0>>, <<0, 20, 0>> >>

\* the unit cube of tests/test_rbf.py
UnitCube ==
    CubeVerts(0, UnitsPerOne)

GenMeshes ==
    {OnePointMesh, TestMesh, UnitCube}

GenParamSets ==
    {DefaultParams, TestParams, ExampleParams}

Margins ==
    {m * MarginStep : m \in 0..MaxMargin}

NoCell ==
    [cell |-> Cell(0, 0, 0, 0, 0), what |-> "none"]

GenIdle ==
    /\ gen_params = DefaultParams
    /\ spatial = OnePointMesh
    /\ bounds_min = <<0, 0, 0>>
    /\ bounds_max = <<0, 0, 0>>
    /\ gen_pc = "idle"
    /\ gen_stack = << >>
    /\ generated_points = << >>
    /\ gen_last = NoCell
    /\ gen_result = << >>
    /\ gen_runs = 0

\* SpatialUtils(mesh) and FieldGenerator(spatial, params)
GenConstruct ==
    /\ gen_params \in GenParamSets
    /\ spatial \in GenMeshes
    /\ bounds_min = <<0, 0, 0>>
    /\ bounds_max = <<0, 0, 0>>
    /\ gen_pc = "idle"
    /\ gen_stack = << >>
    /\ generated_points = << >>
    /\ gen_last = NoCell
    /\ gen_result = << >>
    /\ gen_runs = 0

\* generate without the reset of self.generated_points
generate_enter_keep_points(bmin, bmax) ==
    /\ gen_pc \in {"idle", "done"}
    /\ gen_runs < MaxGenRuns
    /\ bounds_min' = bmin
    /\ bounds_max' = bmax
    /\ generated_points' = generated_points
    /\ gen_stack' = RootCells(bmin, bmax, gen_params)
    /\ gen_pc' = "running"
    /\ gen_runs' = gen_runs + 1
    /\ gen_last' = NoCell
    /\ UNCHANGED <<gen_params, spatial, gen_result>>

\* generate(bounds_min, bounds_max) is entered: the output list is reset and
\* the loop over the root cells is set up
generate_enter(bmin, bmax) ==
    /\ gen_pc \in {"idle", "done"}
    /\ gen_runs < MaxGenRuns
    /\ bounds_min' = bmin
    /\ bounds_max' = bmax
    /\ generated_points' = << >>
    /\ gen_stack' = RootCells(bmin, bmax, gen_params)
    /\ gen_pc' = "running"
    /\ gen_runs' = gen_runs + 1
    /\ gen_last' = NoCell
    /\ UNCHANGED <<gen_params, spatial, gen_result>>

\* the next _process_cell call (a root cell of the loop, or a recursive call)
_process_cell ==
    /\ gen_pc = "running"
    /\ gen_stack # << >>
    /\ LET c == Head(gen_stack)
           r == ProcessCell(c, MaxLevel(gen_params), spatial, gen_params)
       IN  /\ gen_stack' = r.children \o Tail(gen_stack)
           /\ generated_points' = generated_points \o r.emitted
           /\ gen_last' = [cell |-> c, what |-> r.what]
    /\ UNCHANGED <<gen_params, spatial, bounds_min, bounds_max, gen_pc,
                   gen_result, gen_runs>>

\* the loops are over: return np.array(self.generated_points)
generate_return ==
    /\ gen_pc = "running"
    /\ gen_stack = << >>
    /\ gen_result' = generated_points
    /\ gen_pc' = "done"
    /\ UNCHANGED <<gen_params, spatial, bounds_min, bounds_max, gen_stack,
                   generated_points, gen_last, gen_runs>>

\* the caller's boxes: the bounding box of the indexed points plus a margin
generate_call ==
    \E m \in Margins :
        generate_enter([k \in 1..3 |-> AxisMin(spatial)[k] - m],
                       [k \in 1..3 |-> AxisMax(spatial)[k] + m])

(***************************************************************************)
(* RBFCore                                                                 *)
(***************************************************************************)
\* RBFCore.__init__ default / DeformationPipeline default of rbf_smoothing
smoothing ==
    0

\* longest control-point array given to fit
MaxPts ==
    4

\* value of a float the model does not determine exactly
Undet ==
    999999

UndetVec ==
    <<Undet, Undet, Undet>>

None ==
    << >>

VecAdd(a, b) ==
    IF a = UndetVec \/ b = UndetVec THEN UndetVec
    ELSE <<a[1] + b[1], a[2] + b[2], a[3] + b[3]>>

VecSub(a, b) ==
    IF a = UndetVec \/ b = UndetVec THEN UndetVec
    ELSE <<a[1] - b[1], a[2] - b[2], a[3] - b[3]>>

\* numpy broadcasting of two (n, 3) arrays: equal row counts, or one row
Broadcastable(a, b) ==
    Len(a) = Len(b) \/ Len(a) = 1 \/ Len(b) = 1

BroadcastRows(a, b) ==
    IF Len(a) >= Len(b) THEN Len(a) ELSE Len(b)

BRow(a, i) ==
    IF Len(a) = 1 THEN a[1] ELSE a[i]

\* a - b and a + b with broadcasting
ArrSub(a, b) ==
    [i \in 1..BroadcastRows(a, b) |-> VecSub(BRow(a, i), BRow(b, i))]

ArrAdd(a, b) ==
    [i \in 1..BroadcastRows(a, b) |-> VecAdd(BRow(a, i), BRow(b, i))]

\* b[:num_pts] = displacements is accepted when displacements has num_pts
\* rows or one row (which is then repeated)
AssignableToRows(d, num_pts) ==
    Len(d) = num_pts \/ Len(d) = 1

AssignedRows(d, num_pts) ==
    [i \in 1..num_pts |-> BRow(d, i)]

Cross(u, v) ==
    <<u[2] * v[3] - u[3] * v[2], u[3] * v[1] - u[1] * v[3],
      u[1] * v[2] - u[2] * v[1]>>

Dot(u, v) ==
    u[1] * v[1] + u[2] * v[2] + u[3] * v[3]

Diff(a, b) ==
    <<a[1] - b[1], a[2] - b[2], a[3] - b[3]>>

\* rank of the matrix P = [1, x, y, z] of line 69-70 (at most 4)
RankP(S) ==
    LET p0 == S[1]
        I1 == {i \in 1..Len(S) : S[i] # p0}
        p1 == S[SetMin(I1)]
        I2 == {i \in 1..Len(S) :
                  Cross(Diff(p1, p0), Diff(S[i], p0)) # <<0, 0, 0>>}
        p2 == S[SetMin(I2)]
        I3 == {i \in 1..Len(S) :
                  Dot(Cross(Diff(p1, p0), Diff(p2, p0)), Diff(S[i], p0)) # 0}
    IN  IF S = << >> THEN 0
        ELSE IF I1 = {} THEN 1
        ELSE IF I2 = {} THEN 2
        ELSE IF I3 = {} THEN 3
        ELSE 4

HasDuplicateRows(S) ==
    \E i, j \in 1..Len(S) : i < j /\ S[i] = S[j]

\* the matrix A assembled in lines 76-79 is singular: P is rank deficient
\* (fewer than 4 points, or all points in one plane), or two rows of Phi
\* are equal (a repeated control point, no smoothing on the diagonal)
SingularSystem(S) ==
    RankP(S) < 4 \/ (smoothing = 0 /\ HasDuplicateRows(S))

\* np.linalg.solve raises LinAlgError; the except branch is missing
SolvePathNoFallback(S) ==
    IF SingularSystem(S) THEN "LinAlgError" ELSE "solve"

\* lines 86-92: which call produces x
SolvePath(S) ==
    IF SingularSystem(S) THEN "lstsq" ELSE "solve"

\* the (N+4) x 3 array x: determined by the system it solves
Solution(S, rhs, path) ==
    [src |-> S, rhs |-> rhs, path |-> path]

NoSolution ==
    Solution(<< >>, << >>, "none")

\* a slice of x: its row count and the x it is taken from
Slice(rows, x) ==
    [present |-> TRUE, rows |-> rows, x |-> x]

NoneArray ==
    [present |-> FALSE, rows |-> 0, x |-> NoSolution]

RbfState(cp, w, pw) ==
    [control_points |-> cp, weights |-> w, polynomial_weights |-> pw]

\* RBFCore.__init__
RbfNew ==
    RbfState(None, NoneArray, NoneArray)

CallOut(op, status, line, path, args, displacements, deformed) ==
    [op |-> op, status |-> status, line |-> line, path |-> path,
     args |-> args, displacements |-> displacements, deformed |-> deformed]

NoCall ==
    CallOut("none", "none", 0, "none", << >>, << >>, << >>)

WithOut(st, out) ==
    [st |-> st, out |-> out]

\* fit that keeps the control points of an instance that has some
FitKeepFirst(st, S, T) ==
    LET d  == ArrSub(T, S)
        cp == IF st.control_points = None THEN S ELSE st.control_points
        x  == Solution(cp, AssignedRows(d, Len(S)), SolvePath(S))
    IN  IF ~Broadcastable(T, S)
        THEN WithOut(st, CallOut("fit", "ValueError", 53, "none", <<S, T>>,
                                 << >>, << >>))
        ELSE IF ~AssignableToRows(d, Len(S))
        THEN WithOut(RbfState(cp, st.weights, st.polynomial_weights),
                     CallOut("fit", "ValueError", 83, "none", <<S, T>>,
                             << >>, << >>))
        ELSE WithOut(RbfState(cp, Slice(Len(S), x), Slice(4, x)),
                     CallOut("fit", "ok", 0, x.path, <<S, T>>, << >>, << >>))

\* fit without the except branch of lines 88-92
FitNoFallback(st, S, T) ==
    LET d == ArrSub(T, S)
        x == Solution(S, AssignedRows(d, Len(S)), SolvePathNoFallback(S))
    IN  IF ~Broadcastable(T, S)
        THEN WithOut(st, CallOut("fit", "ValueError", 53, "none", <<S, T>>,
                                 << >>, << >>))
        ELSE IF ~AssignableToRows(d, Len(S))
        THEN WithOut(RbfState(S, st.weights, st.polynomial_weights),
                     CallOut("fit", "ValueError", 83, "none", <<S, T>>,
                             << >>, << >>))
        ELSE IF x.path = "LinAlgError"
        THEN WithOut(RbfState(S, st.weights, st.polynomial_weights),
                     CallOut("fit", "LinAlgError", 87, "none", <<S, T>>,
                             << >>, << >>))
        ELSE WithOut(RbfState(S, Slice(Len(S), x), Slice(4, x)),
                     CallOut("fit", "ok", 0, x.path, <<S, T>>, << >>, << >>))

\* RBFCore.fit(source_points, target_points) on an instance in state st:
\*   line 53  displacements = target - source   (may raise: not broadcastable)
\*   line 54  self.control_points = source_points
\*   line 83  b[:num_pts] = displacements       (may raise: wrong row count)
\*   line 87  solve, or on LinAlgError lstsq with the regularised matrix
\*   line 95  self.weights, self.polynomial_weights = x[:num_pts], x[num_pts:]
Fit(st, S, T) ==
    LET d == ArrSub(T, S)
        x == Solution(S, AssignedRows(d, Len(S)), SolvePath(S))
    IN  IF ~Broadcastable(T, S)
        THEN WithOut(st, CallOut("fit", "ValueError", 53, "none", <<S, T>>,
                                 << >>, << >>))
        ELSE IF ~AssignableToRows(d, Len(S))
        THEN WithOut(RbfState(S, st.weights, st.polynomial_weights),
                     CallOut("fit", "ValueError", 83, "none", <<S, T>>,
                             << >>, << >>))
        ELSE WithOut(RbfState(S, Slice(Len(S), x), Slice(4, x)),
                     CallOut("fit", "ok", 0, x.path, <<S, T>>, << >>, << >>))

IsConstant(rhs) ==
    \A i \in 1..Len(rhs) : rhs[i] = rhs[1]

\* lines 91-92 and 123 for one control point s with displacement d: the
\* system (A + 1e-6 I) x = b is non-singular and its solution is, up to terms
\* of the order 1e-6, w = 0 and poly = d (1, s) / (1 + s.s); the prediction at
\* q is d (1 + s.q) / (1 + s.s), here rounded down to the unit of the model
OnePointLstsq(s, d, q) ==
    [k \in 1..3 |->
        IF d[k] = Undet THEN Undet
        ELSE (d[k] * (UnitsPerOne * UnitsPerOne + Dot(s, q)))
                \div (UnitsPerOne * UnitsPerOne + Dot(s, s))]

\* line 123 for one query point q: np.dot(phi, weights) + np.dot(P, poly).
\*  - x solves a non-singular system whose right-hand side is one constant c:
\*    x is (0, ..., 0; c, 0, 0, 0) and the sum is c for every q;
\*  - x solves the non-singular system of these control points and q is the
\*    control point i: the sum is row i of A x = b (no smoothing term);
\*  - x is the least-squares solution of the regularised system of one
\*    control point: the sum is OnePointLstsq;
\*  - otherwise the value is a float this model does not determine.
PredictRow(cp, w, pw, q) ==
    IF w.x.path = "solve" /\ pw.x = w.x /\ IsConstant(w.x.rhs)
    THEN w.x.rhs[1]
    ELSE IF w.x.path = "lstsq" /\ pw.x = w.x /\ Len(w.x.src) = 1
    THEN OnePointLstsq(w.x.src[1], w.x.rhs[1], q)
    ELSE IF w.x.path = "solve" /\ pw.x = w.x /\ w.x.src = cp /\ smoothing = 0
            /\ \E i \in 1..Len(cp) : cp[i] = q
    THEN w.x.rhs[CHOOSE i \in 1..Len(cp) : cp[i] = q]
    ELSE UndetVec

\* predict that returns the displacements as the deformed positions
PredictOkDisplacementOnly(st, Q) ==
    LET disp == [i \in 1..Len(Q) |->
                    PredictRow(st.control_points, st.weights,
                               st.polynomial_weights, Q[i])]
    IN  CallOut("predict", "ok", 0, "none", <<Q>>, disp, disp)

PredictOk(st, Q) ==
    LET disp == [i \in 1..Len(Q) |->
                    PredictRow(st.control_points, st.weights,
                               st.polynomial_weights, Q[i])]
    IN  CallOut("predict", "ok", 0, "none", <<Q>>, disp, ArrAdd(Q, disp))

\* predict whose guard tests control_points instead of weights
PredictGuardControlPoints(st, Q) ==
    IF st.control_points = None
    THEN CallOut("predict", "RuntimeError", 110, "none", <<Q>>, << >>, << >>)
    ELSE IF ~st.weights.present
    THEN CallOut("predict", "TypeError", 123, "none", <<Q>>, << >>, << >>)
    ELSE IF Len(st.control_points) # st.weights.rows
    THEN CallOut("predict", "ValueError", 123, "none", <<Q>>, << >>, << >>)
    ELSE PredictOk(st, Q)

\* RBFCore.predict(mesh_vertices) on an instance in state st:
\*   line 109 weights is None: RuntimeError
\*   line 123 np.dot(phi, weights): phi has one column per control point and
\*            weights one row per control point of its own fit (ValueError
\*            when the two counts differ)
Predict(st, Q) ==
    IF ~st.weights.present
    THEN CallOut("predict", "RuntimeError", 110, "none", <<Q>>, << >>, << >>)
    ELSE IF Len(st.control_points) # st.weights.rows
    THEN CallOut("predict", "ValueError", 123, "none", <<Q>>, << >>, << >>)
    ELSE PredictOk(st, Q)

(***************************************************************************)
(* RBFCore: one instance, any sequence of fit and predict calls            *)
(***************************************************************************)
\* coordinates of the control points tried: four corners of the unit square
\* in the plane z = 0 and one point above it
RbfPts ==
    << <<0, 0, 0>>, <<UnitsPerOne, 0, 0>>, <<0, UnitsPerOne, 0>>,
       <<UnitsPerOne, UnitsPerOne, 0>>, <<0, 0, UnitsPerOne>> >>

\* the same points starting at another one and with the point off the plane
\* in fourth place, and the same points with the first one given twice
RbfPtsTetra ==
    <<RbfPts[2], RbfPts[1], RbfPts[3], RbfPts[5], RbfPts[4]>>

RbfPtsRepeated ==
    <<RbfPts[1], RbfPts[1], RbfPts[2], RbfPts[3], RbfPts[5]>>

\* the control-point arrays tried: the first 1..MaxPts rows of each
RbfArrays ==
    {SubSeq(B, 1, n) :
        B \in {RbfPts, RbfPtsTetra, RbfPtsRepeated},
        n \in 1..(IF MaxPts <= Len(RbfPts) THEN MaxPts ELSE Len(RbfPts))}

Shift(S, c) ==
    [i \in 1..Len(S) |-> VecAdd(S[i], c)]

Scale2(S) ==
    [i \in 1..Len(S) |-> <<2 * S[i][1], 2 * S[i][2], 2 * S[i][3]>>]

\* the translation of tests/test_rbf.py
UnitX ==
    <<UnitsPerOne, 0, 0>>

\* target arrays tried with a source S: S translated, S scaled, and arrays
\* of one, two and three rows whatever the row count of S
RbfTargets(S) ==
    {Shift(S, UnitX), Scale2(S)}
        \cup {Shift(SubSeq(RbfPts, 1, n), UnitX) : n \in {1, 2, 3}}

\* query arrays tried: the centre of the unit cube, and the control points
RbfQueries ==
    { << <<UnitsPerOne \div 2, UnitsPerOne \div 2, UnitsPerOne \div 2>> >> }
        \cup (IF control_points = None THEN {} ELSE {control_points})

RbfCurrent ==
    RbfState(control_points, weights, polynomial_weights)

RbfIdle ==
    /\ control_points = None
    /\ weights = NoneArray
    /\ polynomial_weights = NoneArray
    /\ rbf_out = NoCall
    /\ fit_ok_count = 0

fit(S, T) ==
    LET r == Fit(RbfCurrent, S, T)
    IN  /\ control_points' = r.st.control_points
        /\ weights' = r.st.weights
        /\ polynomial_weights' = r.st.polynomial_weights
        /\ rbf_out' = r.out
        /\ fit_ok_count' = IF r.out.status = "ok" /\ fit_ok_count < 2
                           THEN fit_ok_count + 1 ELSE fit_ok_count

predict(Q) ==
    /\ rbf_out' = Predict(RbfCurrent, Q)
    /\ UNCHANGED <<control_points, weights, polynomial_weights, fit_ok_count>>

fit_call ==
    \E S \in RbfArrays : \E T \in RbfTargets(S) : fit(S, T)

predict_call ==
    \E Q \in RbfQueries : predict(Q)

(***************************************************************************)
(* DeformationPipeline                                                     *)
(***************************************************************************)
FieldData(fp, fd) ==
    [present |-> TRUE, field_points |-> fp, field_displacements |-> fd]

NoFieldData ==
    [present |-> FALSE, field_points |-> << >>, field_displacements |-> << >>]

\* what a bake_field call did: its outcome, the number of points generate
\* returned, whether rbf_1 was fitted, the record returned, and the contents
\* of the two input arrays when the call ends
BakeOut(status, generated, fitted, field, basis, deformed) ==
    [op |-> "bake", status |-> status, generated |-> generated,
     fitted |-> fitted, field |-> field, basis |-> basis,
     deformed |-> deformed, targets |-> << >>, result |-> << >>,
     displacements |-> << >>]

\* bake_field without the test of len(field_points)
BakeFieldNoEmptyCheck(P, basis, source_deformed) ==
    LET bmin == [k \in 1..3 |-> AxisMin(basis)[k] - P.bbox_margin]
        bmax == [k \in 1..3 |-> AxisMax(basis)[k] + P.bbox_margin]
        field_points == Generate(bmin, bmax, basis, P)
        rbf_1 == Fit(RbfNew, basis, source_deformed)
        pred == Predict(rbf_1.st, field_points)
    IN  IF rbf_1.out.status # "ok"
        THEN BakeOut(rbf_1.out.status, Len(field_points), FALSE, NoFieldData,
                     basis, source_deformed)
        ELSE IF pred.status # "ok"
        THEN BakeOut(pred.status, Len(field_points), TRUE, NoFieldData,
                     basis, source_deformed)
        ELSE BakeOut("ok", Len(field_points), TRUE,
                     FieldData(field_points, pred.displacements),
                     basis, source_deformed)

\* DeformationPipeline.bake_field(source_verts_basis, source_verts_deformed):
\*   lines 46-52  bounding box of the basis, grown by bbox_margin (np.min and
\*                np.max return new arrays; the inputs are not written)
\*   lines 55-59  SpatialUtils over the basis, FieldGenerator.generate
\*   line 61      no point: RuntimeError
\*   lines 66-70  rbf_1 = RBFCore(...); fit; predict at the field points
BakeField(P, basis, source_deformed) ==
    LET bmin == [k \in 1..3 |-> AxisMin(basis)[k] - P.bbox_margin]
        bmax == [k \in 1..3 |-> AxisMax(basis)[k] + P.bbox_margin]
        field_points == Generate(bmin, bmax, basis, P)
        rbf_1 == Fit(RbfNew, basis, source_deformed)
        pred == Predict(rbf_1.st, field_points)
    IN  IF Len(field_points) = 0
        THEN BakeOut("RuntimeError", 0, FALSE, NoFieldData,
                     basis, source_deformed)
        ELSE IF rbf_1.out.status # "ok"
        THEN BakeOut(rbf_1.out.status, Len(field_points), FALSE, NoFieldData,
                     basis, source_deformed)
        ELSE IF pred.status # "ok"
        THEN BakeOut(pred.status, Len(field_points), TRUE, NoFieldData,
                     basis, source_deformed)
        ELSE BakeOut("ok", Len(field_points), TRUE,
                     FieldData(field_points, pred.displacements),
                     basis, source_deformed)

\* what an apply_field call did: its outcome, the pair it returned, and the
\* contents of the field record when the call ends
ApplyOut(status, targets, result, displacements, field) ==
    [op |-> "apply", status |-> status, generated |-> 0, fitted |-> TRUE,
     field |-> field, basis |-> << >>, deformed |-> << >>,
     targets |-> targets, result |-> result, displacements |-> displacements]

\* apply_field that adds the displacements to field_points in place
ApplyFieldInPlace(P, fd, target_verts) ==
    LET field_points_deformed ==
            ArrAdd(fd.field_points, fd.field_displacements)
        rbf_2 == Fit(RbfNew, fd.field_points, field_points_deformed)
        pred == Predict(rbf_2.st, target_verts)
        after == FieldData(field_points_deformed, fd.field_displacements)
    IN  IF rbf_2.out.status # "ok"
        THEN ApplyOut(rbf_2.out.status, target_verts, << >>, << >>, after)
        ELSE ApplyOut(pred.status, target_verts, pred.deformed,
                      pred.displacements, after)

\* DeformationPipeline.apply_field(field_data, target_verts):
\*   lines 89-93   field_points_deformed = field_points + field_displacements
\*                 (a new array)
\*   lines 97-100  rbf_2 = RBFCore(...); fit(field_points, deformed)
\*   lines 103-105 predict at the target vertices, return both arrays
ApplyField(P, fd, target_verts) ==
    LET field_points_deformed ==
            ArrAdd(fd.field_points, fd.field_displacements)
        rbf_2 == Fit(RbfNew, fd.field_points, field_points_deformed)
        pred == Predict(rbf_2.st, target_verts)
    IN  IF rbf_2.out.status # "ok"
        THEN ApplyOut(rbf_2.out.status, target_verts, << >>, << >>, fd)
        ELSE ApplyOut(pred.status, target_verts, pred.deformed,
                      pred.displacements, fd)

NoPipeCall ==
    [op |-> "none", status |-> "none", generated |-> 0, fitted |-> FALSE,
     field |-> NoFieldData, basis |-> << >>, deformed |-> << >>,
     targets |-> << >>, result |-> << >>, displacements |-> << >>]

(***************************************************************************)
(* DeformationPipeline: one pipeline, its caller's meshes and record       *)
(***************************************************************************)
\* the cube of run_example.py (size 2, centred at the origin)
ExampleCube ==
    CubeVerts(-UnitsPerOne, UnitsPerOne)

\* four points in the plane z = 0
FlatSquare ==
    SubSeq(RbfPts, 1, 4)

PipeMeshes ==
    {UnitCube, ExampleCube, TestMesh, OnePointMesh, FlatSquare}

\* the shape key of run_example.py: vertices with z > 0.1 are moved to
\* (1.5 x, 1.5 y, z + 2.0)
ExampleDeform(S) ==
    [i \in 1..Len(S) |->
        IF S[i][3] > 20
        THEN <<(3 * S[i][1]) \div 2, (3 * S[i][2]) \div 2,
               S[i][3] + 2 * UnitsPerOne>>
        ELSE S[i]]

\* deformed arrays tried with a basis S
PipeDeformed(S) ==
    {Shift(S, UnitX), ExampleDeform(S), SubSeq(Shift(RbfPts, UnitX), 1, 2)}

PipeParamSets ==
    {DefaultParams, TestParams, ExampleParams}

\* target arrays tried: the source's own vertices, the unit cube, one point
PipeTargets ==
    {mesh_basis, UnitCube,
     << <<UnitsPerOne \div 2, UnitsPerOne \div 2, UnitsPerOne \div 2>> >>}

PipeIdle ==
    /\ pipe_params = DefaultParams
    /\ mesh_basis = OnePointMesh
    /\ mesh_deformed = OnePointMesh
    /\ field_data = NoFieldData
    /\ pipe_out = NoPipeCall
    /\ apply_count = 0

\* DeformationPipeline(params), and the meshes the caller extracted
PipeConstruct ==
    /\ pipe_params \in PipeParamSets
    /\ mesh_basis \in PipeMeshes
    /\ mesh_deformed \in PipeDeformed(mesh_basis)
    /\ field_data = NoFieldData
    /\ pipe_out = NoPipeCall
    /\ apply_count = 0

\* field_data = pipeline.bake_field(src_basis, src_deformed); the caller's
\* record is replaced only when the call returns
bake_field ==
    LET r == BakeField(pipe_params, mesh_basis, mesh_deformed)
    IN  /\ pipe_out' = r
        /\ mesh_basis' = r.basis
        /\ mesh_deformed' = r.deformed
        /\ field_data' = IF r.status = "ok" THEN r.field ELSE field_data
        /\ apply_count' = IF r.status = "ok" THEN 0 ELSE apply_count
        /\ UNCHANGED pipe_params

\* pipeline.apply_field(field_data, tgt_verts) on a baked record
apply_field(target_verts) ==
    /\ field_data.present
    /\ LET r == ApplyField(pipe_params, field_data, target_verts)
       IN  /\ pipe_out' = r
           /\ field_data' = r.field
    /\ apply_count' = IF apply_count < 2 THEN apply_count + 1 ELSE apply_count
    /\ UNCHANGED <<pipe_params, mesh_basis, mesh_deformed>>

apply_field_call ==
    \E t \in PipeTargets : apply_field(t)

(***************************************************************************)
(* SpatialUtils: one instance, constructed and queried on its own          *)
(***************************************************************************)
\* longest query array given to a SpatialUtils call
MaxQuery ==
    3

\* the (0, 3) array, the one-point mesh of tests/test_spatial.py and meshes
\* of several points
SpMeshes ==
    {<< >>, OnePointMesh, TestMesh, UnitCube}

\* the query point (0, 2, 0) of tests/test_spatial.py, a point at distance
\* exactly 1.0 from the origin, an indexed point and the cube centre
SpQueryPoints ==
    {<<0, 2 * UnitsPerOne, 0>>, <<0, UnitsPerOne, 0>>, <<0, 0, 0>>,
     <<100, 100, 100>>}

SpQueries ==
    UNION {[1..n -> SpQueryPoints] : n \in 1..MaxQuery}

\* max_distance 1.0 of tests/test_spatial.py, 0 and 0.1
SpMaxDistances ==
    {UnitsPerOne, 0, 20}

SpOut(op, status, args, max_distance, nearest, points, mask) ==
    [op |-> op, status |-> status, args |-> args,
     max_distance |-> max_distance, nearest |-> nearest, points |-> points,
     mask |-> mask]

NoSpCall ==
    SpOut("none", "none", << >>, 0, << >>, << >>, << >>)

\* no SpatialUtils instance has been constructed
SpIdle ==
    /\ sp_tree = [built |-> FALSE, data |-> << >>]
    /\ sp_out = NoSpCall

\* SpatialUtils(vertices)
sp_construct ==
    /\ ~sp_tree.built
    /\ \E vertices \in SpMeshes :
          /\ sp_tree' = SpatialUtilsInit(vertices).tree
          /\ sp_out' = SpOut("construct", SpatialUtilsInit(vertices).status,
                             vertices, 0, << >>, << >>, << >>)

\* spatial.find_nearest(query_points)
find_nearest_call ==
    /\ sp_tree.built
    /\ \E q \in SpQueries :
          sp_out' = SpOut("find_nearest", "ok", q, 0,
                          [i \in 1..Len(q) |-> find_nearest(sp_tree.data, q[i])],
                          << >>, << >>)
    /\ UNCHANGED sp_tree

\* spatial.filter_points_by_distance(query_points, max_distance)
filter_call ==
    /\ sp_tree.built
    /\ \E q \in SpQueries, r \in SpMaxDistances :
          LET f == filter_points_by_distance(sp_tree.data, q, r)
          IN  sp_out' = SpOut("filter", "ok", q, r,
                              [i \in 1..Len(q) |->
                                  find_nearest(sp_tree.data, q[i])],
                              f.points, f.mask)
    /\ UNCHANGED sp_tree

(***************************************************************************)
(* Specifications                                                          *)
(***************************************************************************)
\* a FieldGenerator used on its own
GenInit ==
    GenConstruct /\ RbfIdle /\ PipeIdle /\ SpIdle

GenNext ==
    \/ generate_call /\ UNCHANGED <<rbf_vars, pipe_vars, sp_vars>>
    \/ _process_cell /\ UNCHANGED <<rbf_vars, pipe_vars, sp_vars>>
    \/ generate_return /\ UNCHANGED <<rbf_vars, pipe_vars, sp_vars>>

SpecGen ==
    GenInit /\ [][GenNext]_vars

\* an RBFCore used on its own
RbfInit ==
    GenIdle /\ RbfIdle /\ PipeIdle /\ SpIdle

RbfNext ==
    \/ fit_call /\ UNCHANGED <<gen_vars, pipe_vars, sp_vars>>
    \/ predict_call /\ UNCHANGED <<gen_vars, pipe_vars, sp_vars>>

SpecRbf ==
    RbfInit /\ [][RbfNext]_vars

\* a DeformationPipeline: bake once or more, apply any number of times
PipeInit ==
    GenIdle /\ RbfIdle /\ PipeConstruct /\ SpIdle

PipeNext ==
    \/ bake_field /\ UNCHANGED <<gen_vars, rbf_vars, sp_vars>>
    \/ apply_field_call /\ UNCHANGED <<gen_vars, rbf_vars, sp_vars>>

SpecPipe ==
    PipeInit /\ [][PipeNext]_vars

\* a SpatialUtils used on its own
SpInit ==
    GenIdle /\ RbfIdle /\ PipeIdle /\ SpIdle

SpNext ==
    \/ sp_construct /\ UNCHANGED <<gen_vars, rbf_vars, pipe_vars>>
    \/ find_nearest_call /\ UNCHANGED <<gen_vars, rbf_vars, pipe_vars>>
    \/ filter_call /\ UNCHANGED <<gen_vars, rbf_vars, pipe_vars>>

SpecSpatial ==
    SpInit /\ [][SpNext]_vars

(***************************************************************************)
(* Properties                                                              *)
(***************************************************************************)
\* C1: after any sequence of fit and predict calls, the stored weights and
\* polynomial_weights are absent or are the solution computed from the
\* control_points now stored, and no predict returns a result evaluated from
\* weights of another fit than the one that stored control_points.
C1_WeightsFromStoredControlPoints ==
    /\ weights.present =>
          /\ weights.x.src = control_points
          /\ polynomial_weights.x.src = control_points
    /\ (rbf_out.op = "predict" /\ rbf_out.status = "ok") =>
          weights.x.src = control_points

\* C2: predict on an instance on which no fit has returned normally raises
\* the 'not fitted' RuntimeError and returns nothing, for a new instance and
\* for one whose fit calls all raised.
C2_PredictUnfittedRaises ==
    (fit_ok_count = 0 /\ rbf_out.op = "predict") =>
        /\ rbf_out.status = "RuntimeError"
        /\ rbf_out.line = 110
        /\ rbf_out.displacements = << >>
        /\ rbf_out.deformed = << >>

\* C2 witness: predict was called after a fit that raised at line 83, with
\* no fit completed.
C2_Witness ==
    /\ fit_ok_count = 0
    /\ rbf_out.op = "predict"
    /\ control_points # None

\* the field points generate returns for the caller's basis mesh
PipeGenerated ==
    Generate([k \in 1..3 |-> AxisMin(mesh_basis)[k] - pipe_params.bbox_margin],
             [k \in 1..3 |-> AxisMax(mesh_basis)[k] + pipe_params.bbox_margin],
             mesh_basis, pipe_params)

\* C3: bake_field raises RuntimeError whenever generate returns no point,
\* without fitting a solver or returning a record; every record returned has
\* at least one field point and as many displacements as points.
C3_EmptyFieldIsHardError ==
    /\ (pipe_out.op = "bake" /\ Len(PipeGenerated) = 0) =>
          /\ pipe_out.status = "RuntimeError"
          /\ ~pipe_out.fitted
          /\ ~pipe_out.field.present
    /\ (pipe_out.op = "bake" /\ pipe_out.field.present) =>
          /\ Len(pipe_out.field.field_points) >= 1
          /\ Len(pipe_out.field.field_displacements)
                = Len(pipe_out.field.field_points)
    /\ field_data.present =>
          /\ Len(field_data.field_points) >= 1
          /\ Len(field_data.field_displacements) = Len(field_data.field_points)

\* C3 witness: a bake_field call whose generate returned no point.
C3_Witness ==
    /\ pipe_out.op = "bake"
    /\ Len(PipeGenerated) = 0
    /\ pipe_out.status = "RuntimeError"

\* C4: every point generate has appended or returned is within
\* surface_distance of the nearest indexed point.
C4_FieldContainment ==
    /\ \A i \in 1..Len(generated_points) :
          NearestD2(spatial, generated_points[i])
             <= gen_params.surface_distance * gen_params.surface_distance
    /\ \A i \in 1..Len(gen_result) :
          NearestD2(spatial, gen_result[i])
             <= gen_params.surface_distance * gen_params.surface_distance

\* C4 witness: generate returned points, and its last cell reached the
\* centre check.
C4_Witness ==
    /\ gen_pc = "done"
    /\ Len(gen_result) > 0
    /\ gen_last.what \in {"emit", "reject"}

InBox(p, bmin, bmax) ==
    \A k \in 1..3 : bmin[k] <= p[k] /\ p[k] <= bmax[k]

\* C5: when the box given to generate contains an indexed surface point,
\* generate returns at least one point.
C5_NonEmptyWhenSurfaceInBox ==
    (gen_pc = "done"
        /\ \E i \in 1..Len(spatial) : InBox(spatial[i], bounds_min, bounds_max))
    => Len(gen_result) > 0

\* C6: for the unit cube translated by (+1,0,0), bake_field returns normally
\* and apply_field on the cube's own vertices returns normally with the
\* displacement (+1,0,0) for every target point.
C6_CubeTranslationRoundTrip ==
    (mesh_basis = UnitCube /\ mesh_deformed = Shift(UnitCube, UnitX)) =>
        /\ pipe_out.op = "bake" => pipe_out.status = "ok"
        /\ (pipe_out.op = "apply" /\ pipe_out.targets = UnitCube) =>
              /\ pipe_out.status = "ok"
              /\ Len(pipe_out.displacements) = Len(UnitCube)
              /\ \A i \in 1..Len(pipe_out.displacements) :
                    pipe_out.displacements[i] = UnitX

\* the last call was a fit whose arrays were accepted by lines 53 and 83, so
\* that the system was assembled and handed to the solver
FitReachedSolve ==
    /\ rbf_out.op = "fit"
    /\ Broadcastable(rbf_out.args[2], rbf_out.args[1])
    /\ AssignableToRows(ArrSub(rbf_out.args[2], rbf_out.args[1]),
                        Len(rbf_out.args[1]))

C8_RowCountMismatchRaises ==
    (rbf_out.op = "fit" /\ Len(rbf_out.args[1]) # Len(rbf_out.args[2])) =>
        rbf_out.status = "ValueError"

\* C9: the state left by a fit that returns is the state the same fit leaves
\* on a new instance, whatever calls came before, and a predict that follows
\* it returns what it returns on that new instance.
C9_FitReplacesState ==
    [][/\ (rbf_out'.op = "fit" /\ rbf_out'.status = "ok") =>
             RbfState(control_points', weights', polynomial_weights')
                = Fit(RbfNew, rbf_out'.args[1], rbf_out'.args[2]).st
       /\ (rbf_out.op = "fit" /\ rbf_out.status = "ok"
             /\ rbf_out'.op = "predict") =>
             rbf_out' = Predict(Fit(RbfNew, rbf_out.args[1],
                                    rbf_out.args[2]).st,
                                rbf_out'.args[1])]_vars

\* C9 witness: a second fit has returned on the instance and a predict
\* followed it.
C9_Witness ==
    /\ fit_ok_count = 2
    /\ rbf_out.op = "predict"
    /\ rbf_out.status = "ok"
    /\ weights.x.src = control_points

\* C10: apply_field leaves the field record and the pipeline's parameters
\* unchanged and returns what it returns when it is the only call made on
\* the record bake_field returned; bake_field leaves its two input arrays
\* unchanged.
C10_ApplyLeavesRecordUnchanged ==
    [][/\ pipe_out'.op = "apply" =>
             /\ field_data' = field_data
             /\ pipe_params' = pipe_params
             /\ pipe_out' = ApplyField(pipe_params,
                                       BakeField(pipe_params, mesh_basis,
                                                 mesh_deformed).field,
                                       pipe_out'.targets)
       /\ pipe_out'.op = "bake" =>
             /\ mesh_basis' = mesh_basis
             /\ mesh_deformed' = mesh_deformed]_vars

\* C10 witness: the same record has been applied a second time, to targets
\* other than the source mesh.
C10_Witness ==
    /\ apply_count = 2
    /\ pipe_out.op = "apply"
    /\ pipe_out.status = "ok"
    /\ pipe_out.targets # mesh_basis

\* C11: every point generate has appended or returned lies inside the box
\* [bounds_min, bounds_max] of the call.
C11_PointsInsideBounds ==
    /\ \A i \in 1..Len(generated_points) :
          InBox(generated_points[i], bounds_min, bounds_max)
    /\ gen_pc = "done" =>
          \A i \in 1..Len(gen_result) :
             InBox(gen_result[i], bounds_min, bounds_max)

\* C12: the sequence generate returns is the sequence of centres emitted
\* during that call in visit order (root cells with z outermost, then y, then
\* x; depth-first inside a root cell); it holds nothing of an earlier call and
\* is determined by the arguments of the call.
C12_ReturnsThisCallsCentres ==
    /\ gen_pc = "done" =>
          gen_result = Generate(bounds_min, bounds_max, spatial, gen_params)
    /\ \A i, j \in 1..Len(gen_stack) :
          (i < j /\ gen_stack[i].level = 0 /\ gen_stack[j].level = 0) =>
             \/ gen_stack[i].z < gen_stack[j].z
             \/ /\ gen_stack[i].z = gen_stack[j].z
                /\ gen_stack[i].y < gen_stack[j].y
             \/ /\ gen_stack[i].z = gen_stack[j].z
                /\ gen_stack[i].y = gen_stack[j].y
                /\ gen_stack[i].x < gen_stack[j].x

\* C12 witness: a second generate call on the instance has returned points.
C12_Witness ==
    /\ gen_pc = "done"
    /\ gen_runs = 2
    /\ Len(gen_result) > 1

\* the number of _process_cell calls a pending call at this level can still
\* cause, itself included: a full octree down to level max_level
CallsBelow(level, max_level) ==
    IF level > max_level THEN 0
    ELSE (Pow2(3 * (max_level - level + 1)) - 1) \div 7

\* the calls the pending calls of levels level..max_level can still cause
RECURSIVE PendingFrom(_, _, _)
PendingFrom(stack, level, max_level) ==
    IF level > max_level THEN 0
    ELSE Cardinality({i \in 1..Len(stack) : stack[i].level = level})
            * CallsBelow(level, max_level)
           + PendingFrom(stack, level + 1, max_level)

\* the calls the pending calls of the stack can still cause
PendingWork(stack, max_level) ==
    PendingFrom(stack, 0, max_level)

\* C17: every generate call that is entered returns: each _process_cell call
\* lowers the bound on the calls still to come, and the call returns when
\* none is pending; the level of every _process_cell call, made or pending,
\* is between 0 and floor(density_falloff) + 1.
C17_TerminatesWithBoundedLevel ==
    [][/\ \A i \in 1..Len(gen_stack') :
             /\ gen_stack'[i].level >= 0
             /\ gen_stack'[i].level <= gen_params.density_falloff + 1
       /\ gen_last'.cell.level >= 0
       /\ gen_last'.cell.level <= gen_params.density_falloff + 1
       /\ (gen_pc = "running" /\ gen_pc' = "running") =>
             PendingWork(gen_stack', gen_params.density_falloff + 1)
                < PendingWork(gen_stack, gen_params.density_falloff + 1)
       /\ (gen_pc = "running" /\ gen_pc' # "running") =>
             /\ gen_pc' = "done"
             /\ gen_stack = << >>
             /\ gen_result' = generated_points]_vars

\* C17 witness: a generate call has returned points and its last
\* _process_cell call was a recursive one.
C17_Witness ==
    /\ gen_pc = "done"
    /\ Len(gen_result) > 0
    /\ gen_last.cell.level > 0

\* the target size, in grid units, of a cell whose nearest corner is at
\* squared distance d2 <= surface_distance^2 from the surface: 1 up to
\* min_distance, 2^level beyond it
TargetSize(d2, P) ==
    IF d2 <= P.min_distance * P.min_distance THEN 1
    ELSE Pow2(SpacingLevel(d2, P))

\* C18: a cell emits a point only when its size is at most the target size
\* for its nearest corner; a cell with a corner within min_distance emits
\* only at size 1; a cell within surface_distance that is larger than its
\* target size is split, never emitted.
C18_EmitOnlyAtTargetSize ==
    LET c  == gen_last.cell
        d2 == MinCornerD2(c, spatial, gen_params)
        near == d2 <= gen_params.min_distance * gen_params.min_distance
    IN  /\ gen_last.what = "emit" =>
              /\ c.cell_size <= TargetSize(d2, gen_params)
              /\ near => c.cell_size = 1
        /\ (gen_last.what \notin {"none", "pruned"}
               /\ c.cell_size > TargetSize(d2, gen_params)) =>
              gen_last.what = "split"

\* C18 witness: a cell with a corner within min_distance of the surface has
\* emitted its centre.
C18_Witness ==
    /\ gen_last.what = "emit"
    /\ MinCornerD2(gen_last.cell, spatial, gen_params)
          <= gen_params.min_distance * gen_params.min_distance

\* C19: every cell given to _process_cell has cell_size =
\* 2^(max_level - level) >= 1; no call ends in the branch where the half size
\* is 0; a call does exactly one of: prune (no corner within
\* surface_distance), split into 8 cells of half the size one level deeper,
\* or check the centre, appending it iff it is within surface_distance.
C19_CellSizeLevelAndOneOutcome ==
    [][/\ \A i \in 1..Len(gen_stack') :
             /\ gen_stack'[i].level <= gen_params.density_falloff + 1
             /\ gen_stack'[i].cell_size
                   = Pow2(gen_params.density_falloff + 1 - gen_stack'[i].level)
             /\ gen_stack'[i].cell_size >= 1
       /\ (gen_pc = "running" /\ gen_pc' = "running") =>
             LET c   == Head(gen_stack)
                 sd2 == gen_params.surface_distance
                          * gen_params.surface_distance
                 far == MinCornerD2(c, spatial, gen_params) > sd2
                 ctr == <<c.x + (c.cell_size * gen_params.base_grid_spacing)
                                   \div 2,
                          c.y + (c.cell_size * gen_params.base_grid_spacing)
                                   \div 2,
                          c.z + (c.cell_size * gen_params.base_grid_spacing)
                                   \div 2>>
                 kept == generated_points' = generated_points
                 popped == gen_stack' = Tail(gen_stack)
             IN  /\ gen_last'.cell = c
                 /\ gen_last'.what \in {"pruned", "split", "emit", "reject"}
                 /\ gen_last'.what = "pruned" <=> far
                 /\ gen_last'.what = "pruned" => kept /\ popped
                 /\ gen_last'.what = "split" =>
                       /\ kept
                       /\ Len(gen_stack') = Len(gen_stack) + 7
                       /\ SubSeq(gen_stack', 9, Len(gen_stack'))
                             = Tail(gen_stack)
                       /\ \A i \in 1..8 :
                             /\ 2 * gen_stack'[i].cell_size = c.cell_size
                             /\ gen_stack'[i].level = c.level + 1
                 /\ gen_last'.what = "emit" =>
                       /\ popped
                       /\ generated_points' = Append(generated_points, ctr)
                       /\ NearestD2(spatial, ctr) <= sd2
                 /\ gen_last'.what = "reject" =>
                       /\ popped /\ kept
                       /\ NearestD2(spatial, ctr) > sd2]_vars

\* C19 witness: a cell made by a split has had its centre checked and
\* rejected, after other cells emitted theirs.
C19_Witness ==
    /\ gen_last.what = "reject"
    /\ gen_last.cell.level > 0
    /\ Len(generated_points) > 0

\* C20: the points appended during one generate call, and the points it
\* returns, are pairwise distinct.
C20_PointsPairwiseDistinct ==
    /\ Cardinality({generated_points[i] : i \in 1..Len(generated_points)})
          = Len(generated_points)
    /\ Cardinality({gen_result[i] : i \in 1..Len(gen_result)})
          = Len(gen_result)

\* C20 witness: generate returned the centres of more than 8 cells, so of
\* cells that are not all children of one cell.
C20_Witness ==
    /\ gen_pc = "done"
    /\ Len(gen_result) > 8
    /\ gen_runs = 1

\* C13: filter_points_by_distance returns a mask with one entry per query
\* point, in input order, that is true exactly where the nearest indexed
\* point is at distance <= max_distance (the boundary included), and the
\* query points with a true entry, in their original order; one point at
\* distance 2.0 with max_distance 1.0 gives an empty result.
C13_FilterKeepsPointsWithinDistance ==
    (sp_out.op = "filter" /\ sp_tree.data # << >>) =>
        LET q     == sp_out.args
            mask  == sp_out.mask
            rank(i) == Cardinality({j \in 1..i : mask[j]})
        IN  /\ Len(mask) = Len(q)
            /\ \A i \in 1..Len(q) :
                  mask[i] <=> sp_out.nearest[i].d2
                                <= sp_out.max_distance * sp_out.max_distance
            /\ Len(sp_out.points) = rank(Len(q))
            /\ \A i \in 1..Len(q) :
                  mask[i] => sp_out.points[rank(i)] = q[i]
            /\ (sp_tree.data = OnePointMesh
                  /\ q = << <<0, 2 * UnitsPerOne, 0>> >>
                  /\ sp_out.max_distance = UnitsPerOne) =>
                  /\ sp_out.points = << >>
                  /\ mask = <<FALSE>>

\* C13 witness: a filter call kept a point at distance exactly max_distance
\* and dropped the point before it and the point after it.
C13_Witness ==
    /\ sp_out.op = "filter"
    /\ sp_tree.data = OnePointMesh
    /\ sp_out.max_distance = UnitsPerOne
    /\ sp_out.args = << <<0, 2 * UnitsPerOne, 0>>, <<0, UnitsPerOne, 0>>,
                        <<0, 2 * UnitsPerOne, 0>> >>
    /\ sp_out.mask = <<FALSE, TRUE, FALSE>>
    /\ sp_out.points = << <<0, UnitsPerOne, 0>> >>

\* C14: constructing a SpatialUtils from an array of zero points ends in an
\* error and leaves no index; constructing it from points succeeds.
C14_EmptyIndexRejected ==
    sp_out.op = "construct" =>
        IF Len(sp_out.args) = 0
        THEN sp_out.status # "ok" /\ ~sp_tree.built
        ELSE sp_out.status = "ok" /\ sp_tree.built

C16_TranslationReproducedEverywhere ==
    (/\ rbf_out.op = "predict" /\ rbf_out.status = "ok"
     /\ weights.x.src = control_points
     /\ polynomial_weights.x = weights.x
     /\ IsConstant(weights.x.rhs)) =>
        \A i \in 1..Len(rbf_out.displacements) :
           \A k \in 1..3 :
              rbf_out.displacements[i][k] \in {weights.x.rhs[1][k], Undet}

====
